---- MODULE Spec2Model ----
(***************************************************************************)
(* Model of app.py: the start-up configuration, the /generate handler, the *)
(* model client generate_pitch_content and the reply parser                *)
(* parse_generated_text.  Python strings are sequences of one-character    *)
(* strings, so that find, split, strip, lower and replace are computed     *)
(* character by character as str does.                                     *)
(***************************************************************************)
EXTENDS Integers, Sequences, FiniteSets, TLC

VARIABLES phase, api_key, requests, idea, failure, raw_text, parser_calls,
          pitch_data, page, lead, order, sep, text, sections, pc

vars == <<phase, api_key, requests, idea, failure, raw_text, parser_calls,
          pitch_data, page, lead, order, sep, text, sections, pc>>

handlerVars == <<phase, api_key, requests, idea, failure, raw_text,
                 parser_calls, pitch_data, page>>

parseVars == <<lead, order, sep, text, sections, pc>>

(***************************************************************************)
(* Python str operations                                                   *)
(***************************************************************************)

\* characters str.strip() removes
Whitespace == {" ", "\n", "\t", "\r", "\f"}

\* str.lower() on one character
LowerOf ==
  ("A" :> "a") @@ ("B" :> "b") @@ ("C" :> "c") @@ ("D" :> "d") @@
  ("E" :> "e") @@ ("F" :> "f") @@ ("G" :> "g") @@ ("H" :> "h") @@
  ("I" :> "i") @@ ("J" :> "j") @@ ("K" :> "k") @@ ("L" :> "l") @@
  ("M" :> "m") @@ ("N" :> "n") @@ ("O" :> "o") @@ ("P" :> "p") @@
  ("Q" :> "q") @@ ("R" :> "r") @@ ("S" :> "s") @@ ("T" :> "t") @@
  ("U" :> "u") @@ ("V" :> "v") @@ ("W" :> "w") @@ ("X" :> "x") @@
  ("Y" :> "y") @@ ("Z" :> "z")

\* s[i:] with a 1-based i
Drop(s, i) == SubSeq(s, i, Len(s))

\* str.find, 1-based; 0 when sub does not occur
Find(s, sub) ==
  LET m == Len(sub)
      hits == {i \in 1..(Len(s) - m + 1) : \A j \in 1..m : s[i + j - 1] = sub[j]}
  IN  IF hits = {} THEN 0 ELSE CHOOSE i \in hits : \A k \in hits : i <= k

\* sub in s
In(sub, s) == Find(s, sub) # 0

\* s.split(d): every occurrence, left to right, non-overlapping
RECURSIVE Split(_, _)
Split(s, d) ==
  LET i == Find(s, d)
  IN  IF i = 0 THEN <<s>>
      ELSE <<SubSeq(s, 1, i - 1)>> \o Split(Drop(s, i + Len(d)), d)

\* s.split(d, 1)
SplitOnce(s, d) ==
  LET i == Find(s, d)
  IN  IF i = 0 THEN <<s>>
      ELSE <<SubSeq(s, 1, i - 1), Drop(s, i + Len(d))>>

\* s.strip()
Strip(s) ==
  LET keep == {i \in 1..Len(s) : s[i] \notin Whitespace}
  IN  IF keep = {} THEN <<>>
      ELSE SubSeq(s, CHOOSE i \in keep : \A k \in keep : i <= k,
                     CHOOSE i \in keep : \A k \in keep : i >= k)

\* s.lower()
Lower(s) == [i \in 1..Len(s) |-> IF s[i] \in DOMAIN LowerOf THEN LowerOf[s[i]] ELSE s[i]]

\* s.replace(' ', '_')
ReplaceSpaces(s) == [i \in 1..Len(s) |-> IF s[i] = " " THEN "_" ELSE s[i]]

(***************************************************************************)
(* parse_generated_text                                                    *)
(***************************************************************************)

\* "## Tagline ##"
TaglineMarker == <<"#","#"," ","T","a","g","l","i","n","e"," ","#","#">>
\* "Tagline ##"
SyntheticPrefix == <<"T","a","g","l","i","n","e"," ","#","#">>
\* '## '
ChunkDelimiter == <<"#","#"," ">>
\* '##'
HeaderDelimiter == <<"#","#">>
\* 'Not found'
NotFound == <<"N","o","t"," ","f","o","u","n","d">>

\* the keys tested by the if/elif chain, in its order
KeyTagline == <<"t","a","g","l","i","n","e">>
KeyValueProposition == <<"v","a","l","u","e","_","p","r","o","p","o","s","i","t","i","o","n">>
KeyElevatorPitch == <<"e","l","e","v","a","t","o","r","_","p","i","t","c","h">>
KeySlideBullets == <<"s","l","i","d","e","_","b","u","l","l","e","t","s">>
KeyCompetitors == <<"c","o","m","p","e","t","i","t","o","r","s">>
KeyRevenueModels == <<"r","e","v","e","n","u","e","_","m","o","d","e","l","s">>

\* the fields of the sections dict
Fields == {"tagline", "value_prop", "elevator_pitch", "slide_bullets",
           "competitors", "revenue_models"}

\* the if/elif chain as (key, field) pairs in source order
Chain == << <<KeyTagline, "tagline">>,
            <<KeyValueProposition, "value_prop">>,
            <<KeyElevatorPitch, "elevator_pitch">>,
            <<KeySlideBullets, "slide_bullets">>,
            <<KeyCompetitors, "competitors">>,
            <<KeyRevenueModels, "revenue_models">> >>

\* every default written as ''
DefaultSectionsEmpty == [f \in Fields |-> <<>>]

\* sections = {...: 'Not found'}
DefaultSections == [f \in Fields |-> NotFound]

\* clean_text without the cut at the marker
CleanTextWhole(t) == t

\* clean_text: the text after the first "## Tagline ##", or all of it
CleanText(t) ==
  IF In(TaglineMarker, t)
  THEN SplitOnce(t, TaglineMarker)[2]
  ELSE t

\* parts = ("Tagline ##" + clean_text).split('## ')
Parts(t) == Split(SyntheticPrefix \o CleanText(t), ChunkDelimiter)

\* header = header_and_content[0].strip().lower().replace(' ', '_')
Header(part) == ReplaceSpaces(Lower(Strip(SplitOnce(part, HeaderDelimiter)[1])))

\* content = header_and_content[1].strip() if len(header_and_content) > 1 else ""
Content(part) ==
  LET header_and_content == SplitOnce(part, HeaderDelimiter)
  IN  IF Len(header_and_content) > 1 THEN Strip(header_and_content[2]) ELSE <<>>

\* the first branch of the if/elif chain whose key is in header; 0 when none
Branch(header) ==
  LET hits == {i \in 1..Len(Chain) : In(Chain[i][1], header)}
  IN  IF hits = {} THEN 0 ELSE CHOOSE i \in hits : \A k \in hits : i <= k

\* d[k] = v on a dict
DictSet(d, k, v) == (k :> v) @@ d

\* the loop body storing under the name of the key tested
ProcessPartSlip(secs, part) ==
  IF Strip(part) = <<>> THEN secs
  ELSE LET b == Branch(Header(part))
       IN  IF b = 0 THEN secs
           ELSE DictSet(secs, IF b = 2 THEN "value_proposition" ELSE Chain[b][2],
                        Content(part))

\* the loop body keeping a field once it is set
ProcessPartKeepFirst(secs, part) ==
  IF Strip(part) = <<>> THEN secs
  ELSE LET b == Branch(Header(part))
       IN  IF b = 0 \/ secs[Chain[b][2]] # NotFound THEN secs
           ELSE DictSet(secs, Chain[b][2], Content(part))

\* the body of the for loop, for one part
ProcessPart(secs, part) ==
  IF Strip(part) = <<>> THEN secs
  ELSE LET b == Branch(Header(part))
       IN  IF b = 0 THEN secs
           ELSE DictSet(secs, Chain[b][2], Content(part))

\* the for loop over parts[i..]
RECURSIVE Loop(_, _, _)
Loop(secs, parts, i) ==
  IF i > Len(parts) THEN secs
  ELSE Loop(ProcessPart(secs, parts[i]), parts, i + 1)

parse_generated_text(t) == Loop(DefaultSections, Parts(t), 1)

\* lst[i] is out of range (i counted from 1)
IndexError(lst, i) == i > Len(lst)

\* an index expression of the function raises: [1] after the split at the
\* marker, [0] and [1] of header_and_content
Raises(t) ==
  LET parts == Parts(t)
  IN  \/ In(TaglineMarker, t) /\ IndexError(SplitOnce(t, TaglineMarker), 2)
      \/ \E i \in 1..Len(parts) :
           LET header_and_content == SplitOnce(parts[i], HeaderDelimiter)
           IN  /\ Strip(parts[i]) # <<>>
               /\ \/ IndexError(header_and_content, 1)
                  \/ /\ Len(header_and_content) > 1
                     /\ IndexError(header_and_content, 2)
(***************************************************************************)
(* Replies handed to the parser                                            *)
(***************************************************************************)

\* the number of headers a reply may leave out
MaxMissing == 1
\* the number of pieces in a reply that does not follow the template
MaxPieces == 3

\* the six headers of the prompt template, in the order of the template
TemplateOrder == <<"tagline", "value_prop", "elevator_pitch",
                   "slide_bullets", "competitors", "revenue_models">>

\* the header the prompt asks for, per field
HeaderText(f) ==
  CASE f = "tagline"        -> <<"#","#"," ","T","a","g","l","i","n","e"," ","#","#">>
    [] f = "value_prop"     -> <<"#","#"," ","V","a","l","u","e"," ","P","r","o","p","o","s","i","t","i","o","n"," ","#","#">>
    [] f = "elevator_pitch" -> <<"#","#"," ","E","l","e","v","a","t","o","r"," ","P","i","t","c","h"," ","#","#">>
    [] f = "slide_bullets"  -> <<"#","#"," ","S","l","i","d","e"," ","B","u","l","l","e","t","s"," ","#","#">>
    [] f = "competitors"    -> <<"#","#"," ","C","o","m","p","e","t","i","t","o","r","s"," ","#","#">>
    [] f = "revenue_models" -> <<"#","#"," ","R","e","v","e","n","u","e"," ","M","o","d","e","l","s"," ","#","#">>

\* a section body of a reply, per field
BodyText(f) ==
  CASE f = "tagline"        -> <<"C","u","t"," ","r","i","g","h","t",","," ","e","v","e","n"," ","l","e","f","t","y",".">>
    [] f = "value_prop"     -> <<".",".",".">>
    [] f = "elevator_pitch" -> <<"M","a","d","e"," ","f","o","r"," ","L","e","f","t","i","e","s">>
    [] f = "slide_bullets"  -> <<"-"," ","P","r","o","b","l","e","m">>
    [] f = "competitors"    -> <<"F","i","s","k","a","r","s">>
    [] f = "revenue_models" -> <<"S","u","b","s","c","r","i","p","t","i","o","n",","," ","U","p","s","e","l","l","s">>

\* what separates a header from its body, and a body from the next header
Separators == {<<"\n">>, <<" ">>}

\* header, separator, body for each field of o[i..], joined by the separator
RECURSIVE RenderSections(_, _, _)
RenderSections(o, s, i) ==
  IF i > Len(o) THEN <<>>
  ELSE HeaderText(o[i]) \o s \o BodyText(o[i])
       \o (IF i < Len(o) THEN s ELSE <<>>)
       \o RenderSections(o, s, i + 1)

\* the reply: what precedes the first header, then the sections
Render(l, o, s) == l \o RenderSections(o, s, 1)

\* sequences of distinct fields that leave out at most MaxMissing of them
Orders ==
  UNION {{o \in [1..n -> Fields] : \A i, j \in 1..n : o[i] = o[j] => i = j} :
         n \in {m \in 0..6 : m >= 6 - MaxMissing}}

\* text before the first header: nothing, a preface, a cut-off marker,
\* or the tagline body without its header
LeadPlain == <<"C","u","t"," ","r","i","g","h","t","\n">>
LeadSpaced == <<" ","C","u","t"," ","r","i","g","h","t","\n">>
Leads == {<<>>, <<"S","u","r","e","!","\n">>, <<"#","#"," ","T","a","g","l","i","n","e"," ","#">>, LeadPlain, LeadSpaced}

\* pieces of replies that drift from the template
Pieces == {<<"#","#"," ","T","a","g","l","i","n","e"," ","#","#">>, <<"#","#"," ","C","o","m","p","e","t","i","t","o","r","s"," ","#","#">>,
           <<"#","#"," ","T","a","g","l","i","n","e"," ","C","o","m","p","e","t","i","t","o","r","s"," ","#","#">>, <<"#","#"," ","R","e","v","e","n","u","e"," ","M","o","d","e","l","s"," ","V","2"," ","#","#">>,
           <<"#","#"," ","v","a","l","u","e"," ","p","r","o","p","o","s","i","t","i","o","n">>, <<"F","o","o">>, <<" ","B","a","r","\n">>,
           <<"#","#">>, <<"#","#"," ">>, <<"#">>, <<"\n">>}

RECURSIVE Concat(_, _)
Concat(ps, i) == IF i > Len(ps) THEN <<>> ELSE ps[i] \o Concat(ps, i + 1)

\* replies made of at most MaxPieces pieces
Drifted == {Concat(ps, 1) : ps \in UNION {[1..n -> Pieces] : n \in 0..MaxPieces}}

NoSections == [f \in {"none"} |-> <<>>]

(***************************************************************************)
(* The parser applied to one reply                                         *)
(***************************************************************************)

HandlerIdle ==
  /\ phase = "boot"
  /\ api_key = "unset"
  /\ requests = 0
  /\ idea = <<>>
  /\ failure = "none"
  /\ raw_text = <<>>
  /\ parser_calls = 0
  /\ pitch_data = NoSections
  /\ page = "none"

ParseInit ==
  /\ HandlerIdle
  /\ \/ /\ lead \in Leads
        /\ order \in Orders
        /\ sep \in Separators
     \/ /\ lead \in Drifted
        /\ order = <<>>
        /\ sep = <<"\n">>
  /\ text = Render(lead, order, sep)
  /\ sections = NoSections
  /\ pc = "call"

\* sections = parse_generated_text(text)
Parse ==
  /\ pc = "call"
  /\ IF Raises(text)
     THEN sections' = sections /\ pc' = "raised"
     ELSE sections' = parse_generated_text(text) /\ pc' = "return"
  /\ UNCHANGED <<lead, order, sep, text>>
  /\ UNCHANGED handlerVars

ParseNext == Parse

ParseSpec == ParseInit /\ [][ParseNext]_vars

(***************************************************************************)
(* Start-up, the model client and the /generate handler                    *)
(***************************************************************************)

\* the number of /generate requests followed
MaxRequests == 2

\* what os.getenv("GEMINI_API_KEY") finds
Keys == {"unset", "invalid", "valid"}

\* how genai.configure(api_key=...) ends: it makes no call to the service,
\* so a string is accepted whatever its value; for None the library either
\* accepts it or raises the TypeError the except clause expects
ConfigureOutcomes(k) == IF k = "unset" THEN {"ok", "TypeError"} ELSE {"ok"}

\* the form field
Ideas == {<<"A"," ","s","u","b","s","c","r","i","p","t","i","o","n"," ","b","o","x"," ","f","o","r"," ","l","e","f","t","-","h","a","n","d","e","d"," ","s","c","i","s","s","o","r","s">>, <<>>}

\* "Error:"
ErrorMark == <<"E","r","r","o","r",":">>
\* the text of the return in the except clause, before {e}
ErrorPrefix == <<"E","r","r","o","r",":"," ","C","o","u","l","d"," ","n","o","t"," ","g","e","n","e","r","a","t","e"," ","c","o","n","t","e","n","t"," ","f","r","o","m"," ","A","I"," ","s","e","r","v","i","c","e","."," ","T","h","e"," ","f","o","l","l","o","w","i","n","g"," ","e","r","r","o","r"," ","o","c","c","u","r","r","e","d",":"," ">>

\* str(e) of the exceptions model construction and generate_content raise
FailureText(kind) ==
  CASE kind = "network"   -> <<"5","0","3"," ","t","i","m","e","d"," ","o","u","t">>
    [] kind = "auth"      -> <<"4","0","0"," ","A","P","I"," ","k","e","y"," ","n","o","t"," ","v","a","l","i","d">>
    [] kind = "quota"     -> <<"4","2","9"," ","q","u","o","t","a"," ","e","x","c","e","e","d","e","d">>
    [] kind = "malformed" -> <<"r","e","s","p","o","n","s","e",".","t","e","x","t"," ","n","e","e","d","s"," ","a"," ","v","a","l","i","d"," ","P","a","r","t">>

\* texts the service answers with
Replies ==
  {Render(l, TemplateOrder, s) : l \in Leads, s \in Separators}
  \cup {<<"E","r","r","o","r",":"," ","q","u","o","t","a"," ","e","x","c","e","e","d","e","d">>,
        <<"#","#"," ","T","a","g","l","i","n","e"," ","#","#","\n","N","o"," ","m","o","r","e"," ","E","r","r","o","r",":"," ","4","0","4","\n","#","#"," ","C","o","m","p","e","t","i","t","o","r","s"," ","#","#","\n","N","o","n","e">>,
        <<>>}

\* how the try block ends: response.text, or an exception; without a valid
\* key the service refuses the call
ModelOutcomes(k) ==
  {[kind |-> "ok", text |-> r] : r \in IF k = "valid" THEN Replies ELSE {}}
  \cup {[kind |-> f, text |-> FailureText(f)] :
        f \in IF k = "valid" THEN {"network", "quota", "malformed"} ELSE {"auth"}}

\* the except clause returning str(e) alone
generate_pitch_content_bare(out) == out.text

\* the try/except of generate_pitch_content
generate_pitch_content(out) ==
  IF out.kind = "ok" THEN out.text ELSE ErrorPrefix \o out.text

\* raw_text.startswith("Error:")
IsErrorPrefix(raw) == Len(raw) >= Len(ErrorMark) /\ SubSeq(raw, 1, Len(ErrorMark)) = ErrorMark

\* if "Error:" in raw_text
IsError(raw) == In(ErrorMark, raw)

ParserIdle ==
  /\ lead = <<>>
  /\ order = <<>>
  /\ sep = <<>>
  /\ text = <<>>
  /\ sections = NoSections
  /\ pc = "idle"

Init ==
  /\ phase = "boot"
  /\ api_key \in Keys
  /\ requests = 0
  /\ idea = <<>>
  /\ failure = "none"
  /\ raw_text = <<>>
  /\ parser_calls = 0
  /\ pitch_data = NoSections
  /\ page = "none"
  /\ ParserIdle

\* module level: configure the client, exit on TypeError, else create the app
configure ==
  /\ phase = "boot"
  /\ \E outcome \in ConfigureOutcomes(api_key) :
       phase' = IF outcome = "TypeError" THEN "exited" ELSE "serving"
  /\ UNCHANGED <<api_key, requests, idea, failure, raw_text, parser_calls,
                 pitch_data, page>>
  /\ UNCHANGED parseVars

\* GET /
index ==
  /\ phase = "serving"
  /\ page' = "index.html"
  /\ UNCHANGED <<phase, api_key, requests, idea, failure, raw_text,
                 parser_calls, pitch_data>>
  /\ UNCHANGED parseVars

\* POST /generate
generate ==
  /\ phase = "serving"
  /\ requests < MaxRequests
  /\ \E i \in Ideas, out \in ModelOutcomes(api_key) :
       LET raw == generate_pitch_content(out)
       IN  /\ idea' = i
           /\ failure' = IF out.kind = "ok" THEN "none" ELSE out.kind
           /\ raw_text' = raw
           /\ IF IsError(raw)
              THEN /\ pitch_data' = [error |-> raw]
                   /\ parser_calls' = parser_calls
              ELSE /\ pitch_data' = parse_generated_text(raw)
                   /\ parser_calls' = parser_calls + 1
  /\ requests' = requests + 1
  /\ page' = "results.html"
  /\ UNCHANGED <<phase, api_key>>
  /\ UNCHANGED parseVars

Next == configure \/ index \/ generate

Spec == Init /\ [][Next]_vars

(***************************************************************************)
(* Properties                                                              *)
(***************************************************************************)

\* lower-cased, spaces as underscores: what the keys are matched against
Normalize(t) == ReplaceSpaces(Lower(t))

\* the key the if/elif chain tests for a field
KeyOf(f) == Chain[CHOOSE b \in 1..Len(Chain) : Chain[b][2] = f][1]

\* t[i..] starts with sub
OccursAt(t, sub, i) ==
  /\ i + Len(sub) - 1 <= Len(t)
  /\ \A j \in 1..Len(sub) : t[i + j - 1] = sub[j]

\* sub occurs somewhere in t
Occurs(t, sub) == \E i \in 1..Len(t) : OccursAt(t, sub, i)

\* C1: a reply with the six headers in template order, each followed by a
\* nonempty body without '##' and separated from it by a newline or by one
\* space, parses to the six trimmed bodies.
C1_InOrderAllFields ==
  (pc = "return" /\ lead = <<>> /\ order = TemplateOrder)
    => \A f \in Fields : sections[f] = BodyText(f)

\* C2: a reply with the six headers once each in any order, each on its own
\* line above its body, parses to the six trimmed bodies.
C2_AnyOrderAllFields ==
  (pc = "return" /\ lead = <<>> /\ Len(order) = 6 /\ sep = <<"\n">>)
    => \A f \in Fields : sections[f] = BodyText(f)

\* C3 as stated: every field, tagline included, whose header is not in the
\* reply is 'Not found'.
C3_AbsentHeaderNotFound ==
  pc = "return"
    => \A f \in Fields : ~Occurs(text, HeaderText(f)) => sections[f] = NotFound

\* C3 amended: each field other than tagline whose key occurs nowhere in the
\* reply (in any letter case, words joined by a space or an underscore) is
\* 'Not found'; tagline always holds the trimmed content of a chunk whose
\* header contains 'tagline', the synthetic chunk being one.
C3_AbsentKeyNotFound ==
  pc = "return"
    => /\ \A f \in Fields \ {"tagline"} :
            ~Occurs(Normalize(text), KeyOf(f)) => sections[f] = NotFound
       /\ \E i \in 1..Len(Parts(text)) :
            /\ Occurs(Header(Parts(text)[i]), KeyTagline)
            /\ sections["tagline"] = Content(Parts(text)[i])

C3_Witness ==
  /\ pc = "return"
  /\ ~Occurs(text, TaglineMarker)
  /\ sections["tagline"] = <<"F","o","o">>
  /\ sections["value_prop"] = <<>>
  /\ ~Occurs(Normalize(text), KeyCompetitors)
  /\ sections["competitors"] = NotFound

\* C4: a reply without '## Tagline ##' that starts with the tagline body,
\* with or without leading whitespace, and goes on with the other five
\* headers, has the trimmed body as its tagline.
C4_LeadingTagline ==
  (/\ pc = "return"
   /\ lead \in {LeadPlain, LeadSpaced}
   /\ Len(order) = 5
   /\ \A i \in 1..Len(order) : order[i] # "tagline")
    => sections["tagline"] = Strip(lead)

\* C5: a /generate request calls the parser exactly when the client's text
\* does not contain 'Error:'; with 'Error:' the payload is the single entry
\* 'error' holding the text, otherwise it is the parser's six-field record.
C5_ParserIffNoError ==
  [][requests' # requests =>
       IF Occurs(raw_text', ErrorMark)
       THEN /\ parser_calls' = parser_calls
            /\ pitch_data' = [error |-> raw_text']
       ELSE /\ parser_calls' = parser_calls + 1
            /\ DOMAIN pitch_data' = Fields
            /\ pitch_data' = parse_generated_text(raw_text')]_vars

C5_Witness ==
  /\ requests = 2
  /\ parser_calls = 1
  /\ failure = "none"
  /\ raw_text # ErrorMark \o SubSeq(raw_text, Len(ErrorMark) + 1, Len(raw_text))
  /\ DOMAIN pitch_data = {"error"}

\* C6: when the model call of a request fails, the client's text starts with
\* 'Error:', the payload is the error-only one and the process keeps
\* serving.
C6_FailureBecomesErrorPayload ==
  failure # "none"
    => /\ OccursAt(raw_text, ErrorMark, 1)
       /\ pitch_data = [error |-> raw_text]
       /\ phase = "serving"

C6_Witness ==
  /\ failure = "quota"
  /\ requests = 1
  /\ api_key = "valid"
  /\ DOMAIN pitch_data = {"error"}

\* C7: for every reply the parser returns without raising, and what it
\* returns has exactly the six fields, each 'Not found' or text taken from
\* the reply.
C7_Total ==
  /\ pc # "raised"
  /\ pc = "return"
       => /\ DOMAIN sections = Fields
          /\ \A f \in Fields :
               \/ sections[f] = NotFound
               \/ sections[f] = <<>>
               \/ Occurs(text, sections[f])

C7_Witness ==
  /\ pc = "return"
  /\ text = <<"#","#"," ","R","e","v","e","n","u","e"," ","M","o","d","e","l","s"," ","V","2"," ","#","#","#","#","F","o","o">>
  /\ sections["revenue_models"] = <<"#","#","F","o","o">>
  /\ sections["tagline"] = <<>>
  /\ sections["competitors"] = NotFound

\* C8: a process that found no usable API key never gets to create the app
\* or to handle a request.
C8_NoKeyNoService ==
  api_key # "valid" => phase # "serving" /\ requests = 0

\* C9: whatever precedes a '## Tagline ##' and does not itself contain one
\* is dropped: the reply parses as the marker and what follows it.
C9_PrefixDiscarded ==
  pc = "return"
    => \A i \in 1..Len(text) :
         (/\ OccursAt(text, TaglineMarker, i)
          /\ ~Occurs(SubSeq(text, 1, i - 1), TaglineMarker))
           => sections = parse_generated_text(
                           TaglineMarker \o Drop(text, i + Len(TaglineMarker)))

C9_Witness ==
  /\ pc = "return"
  /\ Len(order) = 6
  /\ order[1] = "competitors"
  /\ order[2] = "tagline"
  /\ sep = <<"\n">>
  /\ lead = <<"S","u","r","e","!","\n">>
  /\ sections["competitors"] = NotFound
  /\ sections["tagline"] = BodyText("tagline")
  /\ sections["value_prop"] = BodyText("value_prop")

\* C10: a field ends as the trimmed content of the last non-blank chunk
\* assigned to it, a chunk being assigned to the first key of the chain its
\* header contains; a field no chunk is assigned to stays 'Not found'.
C10_LastChunkWins ==
  pc = "return"
    => LET parts == Parts(text)
           assigned(b) ==
             {i \in 1..Len(parts) :
                /\ Strip(parts[i]) # <<>>
                /\ Occurs(Header(parts[i]), Chain[b][1])
                /\ \A c \in 1..(b - 1) : ~Occurs(Header(parts[i]), Chain[c][1])}
       IN  \A b \in 1..Len(Chain) :
             IF assigned(b) = {}
             THEN sections[Chain[b][2]] = NotFound
             ELSE \E i \in assigned(b) :
                    /\ \A k \in assigned(b) : k <= i
                    /\ sections[Chain[b][2]] = Content(parts[i])

C10_Witness ==
  /\ pc = "return"
  /\ text = <<"#","#"," ","T","a","g","l","i","n","e"," ","C","o","m","p","e","t","i","t","o","r","s"," ","#","#","F","o","o">>
  /\ Len(Parts(text)) = 2
  /\ Content(Parts(text)[1]) = <<>>
  /\ sections["tagline"] = <<"F","o","o">>
  /\ sections["competitors"] = NotFound

====
